---- MODULE Spec2Model ----
(***************************************************************************)
(* Model of the scan / cache pipeline of src/src/scan.js (the definitions  *)
(* at lines 206-415, which supersede the earlier copies in the same file)  *)
(* and of the Node.js event loop that runs it.                             *)
(*                                                                         *)
(* Strings of the program are sequences of one-character strings, so that  *)
(* String.includes, the domain regular expression, path.join, path.extname *)
(* and the JSON string escaping are computed, not assumed.                 *)
(*                                                                         *)
(* Environment assumptions: the directory ./out exists and is writable     *)
(* (fs.writeFileSync does not throw), and a root directory argument was    *)
(* given on the command line.                                              *)
(***************************************************************************)
EXTENDS Naturals, Integers, Sequences, FiniteSets, TLC

(* ------------------------------ bounds --------------------------------- *)
\* at most this many paths are enumerated by the glob stream in one run
MaxFiles == 2
\* at most this many invocations of the tool against the same ./out directory
MaxRuns == 2

(* --------------------------- string helpers ---------------------------- *)
INTERNAL == <<"@","i","n","t","e","r","n","a","l">>
FINAL == <<"@","f","i","n","a","l">>
PRIVATE == <<"@","p","r","i","v","a","t","e">>
SWPACKAGE == <<"@","s","w","-","p","a","c","k","a","g","e"," ">>
EXT_PHP == <<".","p","h","p">>
EXT_JS == <<".","j","s">>
EXT_TS == <<".","t","s">>
BACKSLASH == "\\"
QUOTE == "\""
SLASH == "/"
DOT == "."

\* the character class [a-zA-Z-@] of domainRegex
DomainChars ==
    {"a","b","c","d","e","f","g","h","i","j","k","l","m","n","o","p","q","r","s","t","u","v","w","x","y","z",
     "A","B","C","D","E","F","G","H","I","J","K","L","M","N","O","P","Q","R","S","T","U","V","W","X","Y","Z",
     "-", "@"}

\* s.startsWith(pat, i) with a 1-based position
MatchesAt(s, pat, i) ==
    /\ i >= 1
    /\ i + Len(pat) - 1 <= Len(s)
    /\ SubSeq(s, i, i + Len(pat) - 1) = pat

RECURSIVE IndexOfFrom(_, _, _)
\* String.prototype.indexOf: first 1-based position >= i where pat occurs, 0 if none
IndexOfFrom(s, pat, i) ==
    IF i + Len(pat) - 1 > Len(s) THEN 0
    ELSE IF MatchesAt(s, pat, i) THEN i
    ELSE IndexOfFrom(s, pat, i + 1)

\* String.prototype.includes
Includes(s, pat) == IndexOfFrom(s, pat, 1) # 0

RECURSIVE RunEnd(_, _)
\* last position of the maximal run of DomainChars that starts at position i
\* (i - 1 when s[i] is not in the class): the greedy ([a-zA-Z-@]+)
RunEnd(s, i) ==
    IF i <= Len(s) /\ s[i] \in DomainChars THEN RunEnd(s, i + 1) ELSE i - 1

RECURSIVE RegexFrom(_, _)
\* text.match(/@sw-package ([a-zA-Z-@]+)/) tried from position i on:
\* leftmost position where the literal is followed by at least one class
\* character; the capture group is the whole run
RegexFrom(s, i) ==
    LET at == IndexOfFrom(s, SWPACKAGE, i)
        from == at + Len(SWPACKAGE)
    IN  IF at = 0 THEN [matched |-> FALSE, group |-> <<>>]
        ELSE IF RunEnd(s, from) >= from
             THEN [matched |-> TRUE, group |-> SubSeq(s, from, RunEnd(s, from))]
             ELSE RegexFrom(s, at + 1)

DomainRegexMatch(s) == RegexFrom(s, 1)

(* ------------------------------ node:path ------------------------------ *)
RECURSIVE SplitFrom(_, _, _)
\* s.split('/') : the segments between separators, empty ones included
SplitFrom(s, i, cur) ==
    IF i > Len(s) THEN <<cur>>
    ELSE IF s[i] = SLASH THEN <<cur>> \o SplitFrom(s, i + 1, <<>>)
    ELSE SplitFrom(s, i + 1, Append(cur, s[i]))

Split(s) == SplitFrom(s, 1, <<>>)

RECURSIVE NormalizeSegs(_, _, _, _)
\* normalizeString of node:path (posix): drops "" and ".", resolves ".."
NormalizeSegs(segs, i, acc, allowAboveRoot) ==
    IF i > Len(segs) THEN acc
    ELSE LET g == segs[i] IN
         IF g = <<>> \/ g = <<DOT>> THEN NormalizeSegs(segs, i + 1, acc, allowAboveRoot)
         ELSE IF g = <<DOT, DOT>>
              THEN IF Len(acc) > 0 /\ acc[Len(acc)] # <<DOT, DOT>>
                   THEN NormalizeSegs(segs, i + 1, SubSeq(acc, 1, Len(acc) - 1), allowAboveRoot)
                   ELSE IF allowAboveRoot
                        THEN NormalizeSegs(segs, i + 1, Append(acc, g), allowAboveRoot)
                        ELSE NormalizeSegs(segs, i + 1, acc, allowAboveRoot)
              ELSE NormalizeSegs(segs, i + 1, Append(acc, g), allowAboveRoot)

RECURSIVE JoinSegs(_, _)
JoinSegs(segs, i) ==
    IF i > Len(segs) THEN <<>>
    ELSE IF i = Len(segs) THEN segs[i]
    ELSE segs[i] \o <<SLASH>> \o JoinSegs(segs, i + 1)

\* path.normalize (posix)
PathNormalize(p) ==
    IF Len(p) = 0 THEN <<DOT>>
    ELSE LET isAbsolute == p[1] = SLASH
             trailingSep == p[Len(p)] = SLASH
             body == JoinSegs(NormalizeSegs(Split(p), 1, <<>>, ~isAbsolute), 1)
         IN  IF Len(body) = 0
             THEN IF isAbsolute THEN <<SLASH>>
                  ELSE IF trailingSep THEN <<DOT, SLASH>> ELSE <<DOT>>
             ELSE LET b2 == IF trailingSep THEN body \o <<SLASH>> ELSE body
                  IN  IF isAbsolute THEN <<SLASH>> \o b2 ELSE b2

\* path.join(a, b) (posix): empty arguments are skipped, the rest is joined
\* with "/" and normalized
PathJoin(a, b) ==
    LET joined == IF Len(a) = 0 THEN b
                  ELSE IF Len(b) = 0 THEN a
                  ELSE a \o <<SLASH>> \o b
    IN  IF Len(joined) = 0 THEN <<DOT>> ELSE PathNormalize(joined)

RECURSIVE LastIndexOf(_, _, _)
\* last 1-based position <= i of character c in s, 0 if none
LastIndexOf(s, c, i) ==
    IF i = 0 THEN 0
    ELSE IF s[i] = c THEN i
    ELSE LastIndexOf(s, c, i - 1)

\* path.extname (posix) of a path that does not end in a separator
PathExtname(p) ==
    LET sep == LastIndexOf(p, SLASH, Len(p))
        base == SubSeq(p, sep + 1, Len(p))
        dot == LastIndexOf(base, DOT, Len(base))
    IN  IF dot = 0 \/ dot = 1 \/ base = <<DOT, DOT>> THEN <<>>
        ELSE SubSeq(base, dot, Len(base))

(* ------------------------- JavaScript values --------------------------- *)
\* a value of a record field: undefined, null, a boolean or a string
Undefined == [t |-> "undefined", b |-> FALSE, s |-> <<>>]
Null == [t |-> "null", b |-> FALSE, s |-> <<>>]
Bool(x) == [t |-> "boolean", b |-> x, s |-> <<>>]
Str(x) == [t |-> "string", b |-> FALSE, s |-> x]

\* !v
Falsy(v) ==
    \/ v.t = "undefined"
    \/ v.t = "null"
    \/ v.t = "boolean" /\ ~v.b
    \/ v.t = "string" /\ Len(v.s) = 0

\* the property names of a DefinitionRecord
P_isInternal == <<"i","s","I","n","t","e","r","n","a","l">>
P_isFinal == <<"i","s","F","i","n","a","l">>
P_namespace == <<"n","a","m","e","s","p","a","c","e">>
P_className == <<"c","l","a","s","s","N","a","m","e">>
P_fileName == <<"f","i","l","e","N","a","m","e">>
P_domain == <<"d","o","m","a","i","n">>

\* An object is the sequence of its own properties in the order an
\* enumeration walks them: the properties whose name is an array index in
\* ascending numeric order, then the others in creation order.
Prop(n, v) == [name |-> n, val |-> v]

RECURSIVE GetFrom(_, _, _)
GetFrom(o, f, i) ==
    IF i > Len(o) THEN Undefined
    ELSE IF o[i].name = f THEN o[i].val
    ELSE GetFrom(o, f, i + 1)

\* o.f : the value of property f, undefined when o has no such property
Get(o, f) == GetFrom(o, f, 1)

(* ------------------------------- Map ----------------------------------- *)
\* a Map is the sequence of its entries in insertion order
Entry(k, v) == [key |-> k, value |-> v]

RECURSIVE MapIndexFrom(_, _, _)
MapIndexFrom(m, k, i) ==
    IF i > Len(m) THEN 0
    ELSE IF m[i].key = k THEN i
    ELSE MapIndexFrom(m, k, i + 1)

MapIndex(m, k) == MapIndexFrom(m, k, 1)

\* Map.prototype.has
MapHas(m, k) == MapIndex(m, k) # 0

\* Map.prototype.get, for a key the map has
MapGet(m, k) == m[MapIndex(m, k)].value

\* a set that appends without looking for the key
MapSetAppend(m, k, v) == Append(m, Entry(k, v))

\* Map.prototype.set: replaces the value of an existing key in place,
\* appends a new entry otherwise
MapSet(m, k, v) ==
    IF MapHas(m, k)
    THEN [m EXCEPT ![MapIndex(m, k)] = Entry(k, v)]
    ELSE Append(m, Entry(k, v))

RECURSIVE MapFromEntries(_, _, _)
\* new Map(iterable of [key, value])
MapFromEntries(es, i, acc) ==
    IF i > Len(es) THEN acc
    ELSE MapFromEntries(es, i + 1, MapSet(acc, es[i].key, es[i].value))

(* ------------------------------- JSON ---------------------------------- *)
\* A string is the sequence of its UTF-16 code units. The printable ASCII
\* characters and tab, line feed, form feed and carriage return are written
\* as themselves; the grave accent and any other code unit are written
\* "U+hhhh", the code in four lower-case hexadecimal digits.
\* the printable ASCII characters: ASCII[k] has the code 31 + k
ASCII ==
  <<" ", "!", "\"", "#", "$", "%", "&", "'", "(", ")", "*", "+", ",", "-", ".", "/",
    "0", "1", "2", "3", "4", "5", "6", "7", "8", "9", ":", ";", "<", "=", ">", "?",
    "@", "A", "B", "C", "D", "E", "F", "G", "H", "I", "J", "K", "L", "M", "N", "O",
    "P", "Q", "R", "S", "T", "U", "V", "W", "X", "Y", "Z", "[", "\\", "]", "^", "_",
    "U+0060", "a", "b", "c", "d", "e", "f", "g", "h", "i", "j", "k", "l", "m", "n", "o",
    "p", "q", "r", "s", "t", "u", "v", "w", "x", "y", "z", "{", "|", "}", "~">>

HEX == <<"0", "1", "2", "3", "4", "5", "6", "7", "8", "9", "a", "b", "c", "d", "e", "f">>
HEXUPPER == <<"0", "1", "2", "3", "4", "5", "6", "7", "8", "9", "A", "B", "C", "D", "E", "F">>

IsHexDigit(c) == \E d \in DOMAIN HEX : HEX[d] = c \/ HEXUPPER[d] = c

HexValue(c) == (CHOOSE d \in DOMAIN HEX : HEX[d] = c \/ HEXUPPER[d] = c) - 1

\* the four hexadecimal digits of the code n
Hex4(n) ==
    <<HEX[((n \div 4096) % 16) + 1], HEX[((n \div 256) % 16) + 1],
      HEX[((n \div 16) % 16) + 1], HEX[(n % 16) + 1]>>

\* String.fromCharCode(n)
CharOfCode(n) ==
    IF n = 9 THEN "\t"
    ELSE IF n = 10 THEN "\n"
    ELSE IF n = 12 THEN "\f"
    ELSE IF n = 13 THEN "\r"
    ELSE IF n >= 32 /\ n <= 126 THEN ASCII[n - 31]
    ELSE LET h == Hex4(n) IN "U+" \o h[1] \o h[2] \o h[3] \o h[4]

AsciiSet == {ASCII[k] : k \in DOMAIN ASCII}

IsAscii(c) == c \in AsciiSet

\* the code units below U+0020
IsControl(c) == ~IsAscii(c) /\ \E n \in 0..31 : CharOfCode(n) = c

ControlCode(c) == CHOOSE n \in 0..31 : CharOfCode(n) = c

\* the surrogate code units: U+D800..U+DBFF lead, U+DC00..U+DFFF trail
IsLeadSurrogate(c) == ~IsAscii(c) /\ \E n \in 55296..56319 : CharOfCode(n) = c
IsTrailSurrogate(c) == ~IsAscii(c) /\ \E n \in 56320..57343 : CharOfCode(n) = c

SurrogateCode(c) == CHOOSE n \in 55296..57343 : CharOfCode(n) = c

\* the escape JSON.stringify writes for one code unit that needs one
JsonEscapeOf(c) ==
    IF c = QUOTE THEN <<BACKSLASH, QUOTE>>
    ELSE IF c = BACKSLASH THEN <<BACKSLASH, BACKSLASH>>
    ELSE IF c = "\n" THEN <<BACKSLASH, "n">>
    ELSE IF c = "\t" THEN <<BACKSLASH, "t">>
    ELSE IF c = "\r" THEN <<BACKSLASH, "r">>
    ELSE IF c = "\f" THEN <<BACKSLASH, "f">>
    ELSE IF c = CharOfCode(8) THEN <<BACKSLASH, "b">>
    ELSE IF IsControl(c) THEN <<BACKSLASH, "u">> \o Hex4(ControlCode(c))
    ELSE <<BACKSLASH, "u">> \o Hex4(SurrogateCode(c))

RECURSIVE JsonEscape(_, _)
\* the body of JSON.stringify(string): quote, backslash, the code units below
\* U+0020 and the surrogates that are not part of a pair are escaped
JsonEscape(s, i) ==
    IF i > Len(s) THEN <<>>
    ELSE IF IsAscii(s[i])
         THEN (IF s[i] = QUOTE \/ s[i] = BACKSLASH THEN JsonEscapeOf(s[i])
               ELSE <<s[i]>>) \o JsonEscape(s, i + 1)
    ELSE IF IsControl(s[i]) THEN JsonEscapeOf(s[i]) \o JsonEscape(s, i + 1)
    ELSE IF IsLeadSurrogate(s[i]) /\ i < Len(s) /\ IsTrailSurrogate(s[i + 1])
         THEN <<s[i], s[i + 1]>> \o JsonEscape(s, i + 2)
    ELSE IF IsLeadSurrogate(s[i]) \/ IsTrailSurrogate(s[i])
         THEN JsonEscapeOf(s[i]) \o JsonEscape(s, i + 1)
    ELSE <<s[i]>> \o JsonEscape(s, i + 1)

\* JSON.stringify of a string
JsonQuote(s) == <<QUOTE>> \o JsonEscape(s, 1) \o <<QUOTE>>

RECURSIVE JsonUnescape(_, _, _)
\* decodes the body of a JSON string literal; ok is FALSE on a raw quote, a
\* raw code unit below U+0020, a dangling backslash or an escape that
\* JSON.parse rejects
JsonUnescape(e, i, acc) ==
    IF i > Len(e) THEN [ok |-> TRUE, s |-> acc]
    ELSE IF e[i] = QUOTE THEN [ok |-> FALSE, s |-> <<>>]
    ELSE IF e[i] = BACKSLASH
         THEN IF i = Len(e) THEN [ok |-> FALSE, s |-> <<>>]
              ELSE IF e[i + 1] \in {QUOTE, BACKSLASH, SLASH}
                   THEN JsonUnescape(e, i + 2, Append(acc, e[i + 1]))
              ELSE IF e[i + 1] = "b" THEN JsonUnescape(e, i + 2, Append(acc, CharOfCode(8)))
              ELSE IF e[i + 1] = "f" THEN JsonUnescape(e, i + 2, Append(acc, "\f"))
              ELSE IF e[i + 1] = "n" THEN JsonUnescape(e, i + 2, Append(acc, "\n"))
              ELSE IF e[i + 1] = "r" THEN JsonUnescape(e, i + 2, Append(acc, "\r"))
              ELSE IF e[i + 1] = "t" THEN JsonUnescape(e, i + 2, Append(acc, "\t"))
              ELSE IF e[i + 1] = "u"
                   THEN IF i + 5 <= Len(e) /\ \A k \in 2..5 : IsHexDigit(e[i + k])
                        THEN JsonUnescape(e, i + 6,
                                 Append(acc, CharOfCode(HexValue(e[i + 2]) * 4096
                                                        + HexValue(e[i + 3]) * 256
                                                        + HexValue(e[i + 4]) * 16
                                                        + HexValue(e[i + 5]))))
                        ELSE [ok |-> FALSE, s |-> <<>>]
              ELSE [ok |-> FALSE, s |-> <<>>]
    ELSE IF IsControl(e[i]) THEN [ok |-> FALSE, s |-> <<>>]
    ELSE JsonUnescape(e, i + 1, Append(acc, e[i]))

\* JSON.parse of a string literal
JsonUnquote(e) ==
    IF Len(e) < 2 \/ e[1] # QUOTE \/ e[Len(e)] # QUOTE
    THEN [ok |-> FALSE, s |-> <<>>]
    ELSE JsonUnescape(SubSeq(e, 2, Len(e) - 1), 1, <<>>)

\* JSON.stringify of a field value that is not undefined; a string is kept in
\* its encoded form
JsonValue(v) == IF v.t = "string" THEN Str(JsonQuote(v.s)) ELSE v

RECURSIVE JsonMembers(_, _)
\* JSON.stringify of an object: properties whose value is undefined are left out
JsonMembers(o, i) ==
    IF i > Len(o) THEN <<>>
    ELSE (IF o[i].val.t = "undefined" THEN <<>>
          ELSE <<Prop(JsonQuote(o[i].name), JsonValue(o[i].val))>>) \o JsonMembers(o, i + 1)

RECURSIVE JsonEntries(_, _)
\* JSON.stringify(Array.from(map.entries())): one [key, value] pair per entry
JsonEntries(m, i) ==
    IF i > Len(m) THEN <<>>
    ELSE <<[key |-> JsonQuote(m[i].key), members |-> JsonMembers(m[i].value, 1)]>>
         \o JsonEntries(m, i + 1)

\* A cache file text, by the shape of the JSON document it holds:
\*   "unparseable"  not JSON
\*   "null"         the document  null
\*   "primitive"    a number, string, boolean or array at top level
\*   "noField"      an object without a classDefinitions member, e.g. {}
\*   "fieldNull"    {"classDefinitions": null}
\*   "fieldNumber"  {"classDefinitions": 5}
\*   "badEntries"   {"classDefinitions": [1]}
\*   "envelope"     {"classDefinitions": [[key, record], ...]}
JsonDoc(shape, entries) == [shape |-> shape, entries |-> entries]

\* JSON.stringify({classDefinitions: Array.from(classDefinitions.entries())})
JsonStringify(m) == JsonDoc("envelope", JsonEntries(m, 1))

\* JSON.parse of one member value
ParseValue(v) ==
    IF v.t = "string"
    THEN LET d == JsonUnquote(v.s) IN [ok |-> d.ok, val |-> Str(d.s)]
    ELSE [ok |-> TRUE, val |-> v]

DIGITS == <<"0", "1", "2", "3", "4", "5", "6", "7", "8", "9">>

DigitSet == {DIGITS[d] : d \in DOMAIN DIGITS}

IsDigit(c) == c \in DigitSet

DigitValue(c) == (CHOOSE d \in DOMAIN DIGITS : DIGITS[d] = c) - 1

MAXARRAYINDEX == <<"4","2","9","4","9","6","7","2","9","4">>

RECURSIVE DigitsLess(_, _, _)
\* a < b for two digit strings of the same length
DigitsLess(a, b, i) ==
    IF i > Len(a) THEN FALSE
    ELSE IF a[i] # b[i] THEN DigitValue(a[i]) < DigitValue(b[i])
    ELSE DigitsLess(a, b, i + 1)

\* a < b for the decimal integers a and b written without leading zeros
IndexLess(a, b) == Len(a) < Len(b) \/ (Len(a) = Len(b) /\ DigitsLess(a, b, 1))

\* the property name is an array index: the canonical decimal form of an
\* integer from 0 to 2^32 - 2
IsArrayIndex(n) ==
    /\ Len(n) > 0
    /\ \A i \in DOMAIN n : IsDigit(n[i])
    /\ n[1] = "0" => Len(n) = 1
    /\ ~IndexLess(MAXARRAYINDEX, n)

\* o[n] = v: an own property keeps its place and takes the new value; a new
\* array index goes before the first property that is not one or is a larger
\* one, any other new name goes last
SetProp(o, n, v) ==
    IF \E k \in DOMAIN o : o[k].name = n
    THEN [k \in DOMAIN o |-> IF o[k].name = n THEN Prop(n, v) ELSE o[k]]
    ELSE IF IsArrayIndex(n)
    THEN LET after == {k \in DOMAIN o :
                          ~IsArrayIndex(o[k].name) \/ IndexLess(n, o[k].name)}
             at == IF after = {} THEN Len(o) + 1
                   ELSE CHOOSE k \in after : \A j \in after : k <= j
         IN  SubSeq(o, 1, at - 1) \o <<Prop(n, v)>> \o SubSeq(o, at, Len(o))
    ELSE Append(o, Prop(n, v))

RECURSIVE ParseMembers(_, _, _)
\* JSON.parse of an object: of members with the same name the last one gives
\* the value
ParseMembers(ms, i, acc) ==
    IF i > Len(ms) THEN [ok |-> TRUE, obj |-> acc]
    ELSE LET n == JsonUnquote(ms[i].name)
             d == ParseValue(ms[i].val)
         IN  IF ~n.ok \/ ~d.ok THEN [ok |-> FALSE, obj |-> <<>>]
             ELSE ParseMembers(ms, i + 1, SetProp(acc, n.s, d.val))

RECURSIVE ParseEntries(_, _, _)
ParseEntries(es, i, acc) ==
    IF i > Len(es) THEN [ok |-> TRUE, entries |-> acc]
    ELSE LET k == JsonUnquote(es[i].key)
             o == ParseMembers(es[i].members, 1, <<>>)
         IN  IF ~k.ok \/ ~o.ok THEN [ok |-> FALSE, entries |-> <<>>]
             ELSE ParseEntries(es, i + 1, Append(acc, Entry(k.s, o.obj)))

\* JSON.parse(cacheFile): ok is FALSE when it throws a SyntaxError
JsonParse(doc) ==
    IF doc.shape = "unparseable" THEN [ok |-> FALSE, entries |-> <<>>]
    ELSE IF doc.shape = "envelope" THEN ParseEntries(doc.entries, 1, <<>>)
    ELSE [ok |-> TRUE, entries |-> <<>>]

(* --------------------------- the scanned tree -------------------------- *)
\* A file of the scanned tree: its path relative to the scan root as the glob
\* stream yields it, whether fs.readFile succeeds on it, whether parser.parse
\* throws on its content (content larger than parseOptions.bufferSize), and
\* the captures the query of its own dialect returns for its syntax tree.
File_a_php ==
    [p |-> <<"a",".","p","h","p">>, readable |-> TRUE, tooBig |-> FALSE,
     captures |->
       <<[name |-> "namespace", text |-> <<"N">>],
         [name |-> "comment", text |-> <<"/","*","*"," ","@","i","n","t","e","r","n","a","l"," ","*","/">>],
         [name |-> "name", text |-> <<"P","a","c","k","a","g","e">>],
         [name |-> "package", text |-> <<"c","o","r","e">>],
         [name |-> "classname", text |-> <<"A">>]>>]

\* two classes in one file: the pattern matches once per class, each match
\* capturing the namespace again
File_b_php ==
    [p |-> <<"b",".","p","h","p">>, readable |-> TRUE, tooBig |-> FALSE,
     captures |->
       <<[name |-> "namespace", text |-> <<"N">>],
         [name |-> "namespace", text |-> <<"N">>],
         [name |-> "comment", text |-> <<"/","/"," ","x">>],
         [name |-> "name", text |-> <<"P","a","c","k","a","g","e">>],
         [name |-> "package", text |-> <<"i","n","v","e","n","t","o","r","y">>],
         [name |-> "classname", text |-> <<"A">>],
         [name |-> "comment", text |-> <<"/","*"," ","@","f","i","n","a","l"," ","@","i","n","t","e","r","n","a","l"," ","*","/">>],
         [name |-> "name", text |-> <<"P","a","c","k","a","g","e">>],
         [name |-> "package", text |-> <<"c","o","r","e">>],
         [name |-> "classname", text |-> <<"A","2">>]>>]

\* a file without a namespace or without a class carrying the Package
\* attribute: the pattern does not match
File_c_php ==
    [p |-> <<"c",".","p","h","p">>, readable |-> TRUE, tooBig |-> FALSE,
     captures |->
       <<>>]

\* a file name holding a tab
File_d_php ==
    [p |-> <<"d","\t",".","p","h","p">>, readable |-> TRUE, tooBig |-> FALSE,
     captures |->
       <<[name |-> "namespace", text |-> <<"I","n","f","i","n","i","t","y">>],
         [name |-> "name", text |-> <<"P","a","c","k","a","g","e">>],
         [name |-> "package", text |-> <<"c","h","e","c","k","o","u","t">>],
         [name |-> "classname", text |-> <<"D">>]>>]

File_e_php ==
    [p |-> <<"e",".","p","h","p">>, readable |-> TRUE, tooBig |-> FALSE,
     captures |->
       <<[name |-> "namespace", text |-> <<"M">>],
         [name |-> "comment", text |-> <<"/","/"," ","i","n","t","e","r","n","a","l">>],
         [name |-> "name", text |-> <<"P","a","c","k","a","g","e">>],
         [name |-> "package", text |-> <<"c","h","e","c","k","o","u","t">>],
         [name |-> "finalkeyword", text |-> <<"f","i","n","a","l">>],
         [name |-> "classname", text |-> <<"B">>]>>]

File_f_js ==
    [p |-> <<"f",".","j","s">>, readable |-> TRUE, tooBig |-> FALSE,
     captures |->
       <<[name |-> "comment", text |-> <<"/","/"," ","@","s","w","-","p","a","c","k","a","g","e"," ">>],
         [name |-> "comment", text |-> <<"/","*"," ","@","s","w","-","p","a","c","k","a","g","e"," ","s","t","o","r","e","f","r","o","n","t"," ","*","/">>],
         [name |-> "comment", text |-> <<"/","/"," ","@","p","r","i","v","a","t","e">>]>>]

File_lib_g_ts ==
    [p |-> <<"l","i","b","/","g",".","t","s">>, readable |-> TRUE, tooBig |-> FALSE,
     captures |->
       <<>>]

File_h_php ==
    [p |-> <<"h",".","p","h","p">>, readable |-> FALSE, tooBig |-> FALSE,
     captures |->
       <<[name |-> "namespace", text |-> <<"N">>],
         [name |-> "name", text |-> <<"P","a","c","k","a","g","e">>],
         [name |-> "package", text |-> <<"c","o","r","e">>],
         [name |-> "classname", text |-> <<"H">>]>>]

File_i_js ==
    [p |-> <<"i",".","j","s">>, readable |-> TRUE, tooBig |-> TRUE,
     captures |->
       <<[name |-> "comment", text |-> <<"/","/"," ","@","i","n","t","e","r","n","a","l">>]>>]

Tree == <<File_a_php, File_b_php, File_c_php, File_d_php, File_e_php, File_f_js, File_lib_g_ts, File_h_php, File_i_js>>

FileIds == DOMAIN Tree

\* the scan roots given on the command line
Dirs == {<<".">>, <<"r">>}

(* ---------------------------- tree-sitter ------------------------------ *)
\* parser.parse(content) under the language the parser is set to
Parse(lang, id) == [lang |-> lang, file |-> id]

\* query.captures(tree.rootNode): the captures of the file when the tree was
\* built with the grammar the query was compiled for, none otherwise
Captures(queryLang, tree) ==
    IF tree.lang = queryLang THEN Tree[tree.file].captures ELSE <<>>

RECURSIVE FindFrom(_, _, _)
\* queryCaptures.find(c => c.name === n): index of the first one, 0 if none
FindFrom(caps, n, i) ==
    IF i > Len(caps) THEN 0
    ELSE IF caps[i].name = n THEN i
    ELSE FindFrom(caps, n, i + 1)

\* queryCaptures.find(c => c.name === n)?.node?.text
FindText(caps, n) ==
    LET i == FindFrom(caps, n, 1)
    IN  IF i = 0 THEN Undefined ELSE Str(caps[i].text)

RECURSIVE FilterByName(_, _, _)
\* queryCaptures.filter(c => c.name === n)
FilterByName(caps, n, i) ==
    IF i > Len(caps) THEN <<>>
    ELSE (IF caps[i].name = n THEN <<caps[i]>> ELSE <<>>) \o FilterByName(caps, n, i + 1)

RECURSIVE SomeIncludes(_, _, _)
\* comments.some(c => c.node.text.includes(pat))
SomeIncludes(comments, pat, i) ==
    IF i > Len(comments) THEN FALSE
    ELSE IF Includes(comments[i].text, pat) THEN TRUE
    ELSE SomeIncludes(comments, pat, i + 1)

RECURSIVE SomeIncludesEither(_, _, _, _)
\* comments.some(c => c.node.text.includes(a) || c.node.text.includes(b))
SomeIncludesEither(comments, a, b, i) ==
    IF i > Len(comments) THEN FALSE
    ELSE IF Includes(comments[i].text, a) \/ Includes(comments[i].text, b) THEN TRUE
    ELSE SomeIncludesEither(comments, a, b, i + 1)

RECURSIVE FirstDomainMatch(_, _)
\* comments.map(c => c.node.text.match(domainRegex)).find(match => match)?.[1]
FirstDomainMatch(comments, i) ==
    IF i > Len(comments) THEN Undefined
    ELSE LET m == DomainRegexMatch(comments[i].text) IN
         IF m.matched THEN Str(m.group) ELSE FirstDomainMatch(comments, i + 1)

(* ----------------------------- extractors ------------------------------ *)
\* queryClassDefinitions without the guard on namespace and className
queryClassDefinitionsNoGuard(tree, globPath, filePath, resultMap) ==
    LET queryCaptures == Captures("Php", tree)
        isFinalKeyword == FindFrom(queryCaptures, "finalkeyword", 1) # 0
        namespace == FindText(queryCaptures, "namespace")
        className == FindText(queryCaptures, "classname")
        package_domain == FindText(queryCaptures, "package")
        comments == FilterByName(queryCaptures, "comment", 1)
        isInternal == SomeIncludes(comments, INTERNAL, 1)
        isFinalComment == SomeIncludes(comments, FINAL, 1)
        text(v) == IF v.t = "undefined" THEN <<"u","n","d","e","f","i","n","e","d">> ELSE v.s
    IN  MapSet(resultMap, text(namespace) \o <<BACKSLASH>> \o text(className),
                    << Prop(P_isInternal, Bool(isInternal)),
                       Prop(P_isFinal, Bool(isFinalKeyword \/ isFinalComment)),
                       Prop(P_namespace, namespace),
                       Prop(P_className, className),
                       Prop(P_fileName, Str(globPath)),
                       Prop(P_domain, package_domain) >>)

\* queryClassDefinitions looking at the first comment only
queryClassDefinitionsFirstComment(tree, globPath, filePath, resultMap) ==
    LET queryCaptures == Captures("Php", tree)
        isFinalKeyword == FindFrom(queryCaptures, "finalkeyword", 1) # 0
        namespace == FindText(queryCaptures, "namespace")
        className == FindText(queryCaptures, "classname")
        package_domain == FindText(queryCaptures, "package")
        comments == SubSeq(FilterByName(queryCaptures, "comment", 1), 1, 1)
        isInternal == SomeIncludes(comments, INTERNAL, 1)
        isFinalComment == SomeIncludes(comments, FINAL, 1)
    IN  IF Falsy(namespace) \/ Falsy(className) THEN resultMap
        ELSE MapSet(resultMap, namespace.s \o <<BACKSLASH>> \o className.s,
                    << Prop(P_isInternal, Bool(isInternal)),
                       Prop(P_isFinal, Bool(isFinalKeyword \/ isFinalComment)),
                       Prop(P_namespace, namespace),
                       Prop(P_className, className),
                       Prop(P_fileName, Str(globPath)),
                       Prop(P_domain, package_domain) >>)

\* queryClassDefinitions taking isFinal from the keyword alone
queryClassDefinitionsKeywordOnly(tree, globPath, filePath, resultMap) ==
    LET queryCaptures == Captures("Php", tree)
        isFinalKeyword == FindFrom(queryCaptures, "finalkeyword", 1) # 0
        namespace == FindText(queryCaptures, "namespace")
        className == FindText(queryCaptures, "classname")
        package_domain == FindText(queryCaptures, "package")
        comments == FilterByName(queryCaptures, "comment", 1)
        isInternal == SomeIncludes(comments, INTERNAL, 1)
        isFinalComment == SomeIncludes(comments, FINAL, 1)
    IN  IF Falsy(namespace) \/ Falsy(className) THEN resultMap
        ELSE MapSet(resultMap, namespace.s \o <<BACKSLASH>> \o className.s,
                    << Prop(P_isInternal, Bool(isInternal)),
                       Prop(P_isFinal, Bool(isFinalKeyword)),
                       Prop(P_namespace, namespace),
                       Prop(P_className, className),
                       Prop(P_fileName, Str(globPath)),
                       Prop(P_domain, package_domain) >>)

\* queryClassDefinitions(tree, globPath, filePath, resultMap): the resultMap
\* after the call
queryClassDefinitions(tree, globPath, filePath, resultMap) ==
    LET queryCaptures == Captures("Php", tree)
        isFinalKeyword == FindFrom(queryCaptures, "finalkeyword", 1) # 0
        namespace == FindText(queryCaptures, "namespace")
        className == FindText(queryCaptures, "classname")
        package_domain == FindText(queryCaptures, "package")
        comments == FilterByName(queryCaptures, "comment", 1)
        isInternal == SomeIncludes(comments, INTERNAL, 1)
        isFinalComment == SomeIncludes(comments, FINAL, 1)
    IN  IF Falsy(namespace) \/ Falsy(className) THEN resultMap
        ELSE MapSet(resultMap, namespace.s \o <<BACKSLASH>> \o className.s,
                    << Prop(P_isInternal, Bool(isInternal)),
                       Prop(P_isFinal, Bool(isFinalKeyword \/ isFinalComment)),
                       Prop(P_namespace, namespace),
                       Prop(P_className, className),
                       Prop(P_fileName, Str(globPath)),
                       Prop(P_domain, package_domain) >>)

\* queryFrontendDefinitions skipping a file without a top-level comment
queryFrontendDefinitionsNeedsComment(tree, globPath, filePath, resultMap) ==
    LET queryCaptures == Captures("TypeScript", tree)
        topLevelComments == FilterByName(queryCaptures, "comment", 1)
        isInternal == SomeIncludesEither(topLevelComments, INTERNAL, PRIVATE, 1)
        found == FirstDomainMatch(topLevelComments, 1)
        domain == IF Falsy(found) THEN Null ELSE found
    IN  IF topLevelComments = <<>> THEN resultMap ELSE
        MapSet(resultMap, filePath,
               << Prop(P_isInternal, Bool(isInternal)),
                  Prop(P_isFinal, Null),
                  Prop(P_namespace, Null),
                  Prop(P_className, Null),
                  Prop(P_fileName, Str(globPath)),
                  Prop(P_domain, domain) >>)

\* queryFrontendDefinitions storing the record under the scan-relative path
queryFrontendDefinitionsKeyGlobPath(tree, globPath, filePath, resultMap) ==
    LET queryCaptures == Captures("TypeScript", tree)
        topLevelComments == FilterByName(queryCaptures, "comment", 1)
        isInternal == SomeIncludesEither(topLevelComments, INTERNAL, PRIVATE, 1)
        found == FirstDomainMatch(topLevelComments, 1)
        domain == IF Falsy(found) THEN Null ELSE found
    IN  MapSet(resultMap, globPath,
               << Prop(P_isInternal, Bool(isInternal)),
                  Prop(P_isFinal, Null),
                  Prop(P_namespace, Null),
                  Prop(P_className, Null),
                  Prop(P_fileName, Str(globPath)),
                  Prop(P_domain, domain) >>)

\* queryFrontendDefinitions(tree, globPath, filePath, resultMap): the
\* resultMap after the call
queryFrontendDefinitions(tree, globPath, filePath, resultMap) ==
    LET queryCaptures == Captures("TypeScript", tree)
        topLevelComments == FilterByName(queryCaptures, "comment", 1)
        isInternal == SomeIncludesEither(topLevelComments, INTERNAL, PRIVATE, 1)
        found == FirstDomainMatch(topLevelComments, 1)
        domain == IF Falsy(found) THEN Null ELSE found
    IN  MapSet(resultMap, filePath,
               << Prop(P_isInternal, Bool(isInternal)),
                  Prop(P_isFinal, Null),
                  Prop(P_namespace, Null),
                  Prop(P_className, Null),
                  Prop(P_fileName, Str(globPath)),
                  Prop(P_domain, domain) >>)

(* ------------------------------- cache --------------------------------- *)
\* the content of ./out/scan-cache.json
NoFile == [exists |-> FALSE, doc |-> JsonDoc("unparseable", <<>>)]
FileWith(doc) == [exists |-> TRUE, doc |-> doc]

NoCache == [found |-> FALSE, classDefinitions |-> <<>>]

\* loadCache(): found is FALSE when it returns null, that is when
\* readFileSync, JSON.parse, the member access on null or new Map(...) throws
loadCache(file) ==
    IF ~file.exists THEN NoCache
    ELSE LET data == JsonParse(file.doc) IN
         IF ~data.ok THEN NoCache
         ELSE IF file.doc.shape = "null" THEN NoCache
         ELSE IF file.doc.shape \in {"fieldNumber", "badEntries"} THEN NoCache
         ELSE [found |-> TRUE,
               classDefinitions |-> MapFromEntries(data.entries, 1, <<>>)]

\* saveCache writing the entries under the member name "definitions"
saveCacheWrongMember(classDefinitions_) == FileWith(JsonDoc("noField", <<>>))

\* saveCache(classDefinitions): the cache file after the call
saveCache(classDefinitions_) == FileWith(JsonStringify(classDefinitions_))

(* ------------------------------ the report ----------------------------- *)
\* A natural number of any size is the sequence of its decimal digits, most
\* significant first and without leading zeros; zero is the empty sequence.
NatStrip(d) ==
    IF \A i \in DOMAIN d : d[i] = 0 THEN <<>>
    ELSE LET f == CHOOSE i \in DOMAIN d : d[i] # 0 /\ \A k \in 1..(i - 1) : d[k] = 0
         IN  SubSeq(d, f, Len(d))

RECURSIVE NatOfInt(_)
NatOfInt(k) == IF k = 0 THEN <<>> ELSE Append(NatOfInt(k \div 10), k % 10)

\* a < b
NatLess(a, b) ==
    \/ Len(a) < Len(b)
    \/ /\ Len(a) = Len(b)
       /\ \E i \in DOMAIN a : a[i] < b[i] /\ \A k \in 1..(i - 1) : a[k] = b[k]

\* the digit of a at place i, the units being place 1
NatDigit(a, i) == IF i >= 1 /\ i <= Len(a) THEN a[Len(a) + 1 - i] ELSE 0

\* a + b: place i receives a carry when a lower place makes one and every
\* place between passes it on
NatAdd(a, b) ==
    LET n == (IF Len(a) > Len(b) THEN Len(a) ELSE Len(b)) + 1
        s(i) == NatDigit(a, i) + NatDigit(b, i)
        carry(i) == \E j \in 1..(i - 1) :
                        s(j) >= 10 /\ \A k \in (j + 1)..(i - 1) : s(k) = 9
    IN  NatStrip([p \in 1..n |->
            LET i == n + 1 - p IN (s(i) + (IF carry(i) THEN 1 ELSE 0)) % 10])

\* a - b, for a >= b
NatSub(a, b) ==
    LET borrow(i) == \E j \in 1..(i - 1) :
                        /\ NatDigit(a, j) < NatDigit(b, j)
                        /\ \A k \in (j + 1)..(i - 1) : NatDigit(a, k) = NatDigit(b, k)
    IN  NatStrip([p \in 1..Len(a) |->
            LET i == Len(a) + 1 - p
            IN  (NatDigit(a, i) + 10 - NatDigit(b, i) - (IF borrow(i) THEN 1 ELSE 0)) % 10])

\* a = 2 * q + r: the remainder a digit takes over from the one before it is
\* that digit's parity
NatHalve(a) ==
    [q |-> NatStrip([i \in DOMAIN a |->
              ((IF i > 1 THEN a[i - 1] % 2 ELSE 0) * 10 + a[i]) \div 2]),
     r |-> IF a = <<>> THEN 0 ELSE a[Len(a)] % 2]

\* 2 * a: a digit makes a carry exactly when it is 5 or more
NatDouble(a) ==
    NatStrip([p \in 1..(Len(a) + 1) |->
        LET i == Len(a) + 2 - p
        IN  (2 * NatDigit(a, i) + (IF NatDigit(a, i - 1) >= 5 THEN 1 ELSE 0)) % 10])

\* 2^53
TWO53 == <<9,0,0,7,1,9,9,2,5,4,7,4,0,9,9,2>>

RECURSIVE ShiftRightBy(_, _)
\* a without its n lowest bits: round is the highest bit dropped, sticky
\* whether a lower one was set
ShiftRightBy(a, n) ==
    IF n = 0 THEN [q |-> a, round |-> FALSE, sticky |-> FALSE]
    ELSE IF n = 1
    THEN LET h == NatHalve(a) IN [q |-> h.q, round |-> h.r = 1, sticky |-> FALSE]
    ELSE LET first == ShiftRightBy(a, n \div 2)
             second == ShiftRightBy(first.q, n - (n \div 2))
         IN  IF first.q = <<>>
             THEN [q |-> <<>>, round |-> FALSE,
                   sticky |-> first.round \/ first.sticky]
             ELSE [q |-> second.q, round |-> second.round,
                   sticky |-> second.sticky \/ first.round \/ first.sticky]

RECURSIVE ShiftLeftBy(_, _)
\* a * 2^n
ShiftLeftBy(a, n) ==
    IF n = 0 THEN a
    ELSE IF n = 1 THEN NatDouble(a)
    ELSE LET half == ShiftLeftBy(a, n \div 2)
         IN  IF half = <<>> THEN <<>> ELSE ShiftLeftBy(half, n - (n \div 2))

RECURSIVE Exponent(_, _, _)
\* the least e in lo..hi for which a without its e lowest bits is below 2^53
Exponent(a, lo, hi) ==
    IF lo = hi THEN lo
    ELSE LET mid == (lo + hi) \div 2 IN
         IF NatLess(ShiftRightBy(a, mid).q, TWO53) THEN Exponent(a, lo, mid)
         ELSE Exponent(a, mid + 1, hi)

\* the double nearest to the natural number a, ties to the even significand;
\* overflow is TRUE from 2^1024 on (all numbers of more than 309 digits
\* are)
RoundToDouble(a) ==
    IF Len(a) > 309 THEN [overflow |-> TRUE, mag |-> <<>>]
    ELSE LET e == IF NatLess(a, TWO53) THEN 0 ELSE Exponent(a, 1, 4 * Len(a))
             s == ShiftRightBy(a, e)
             up == s.round /\ (s.sticky \/ NatDigit(s.q, 1) % 2 = 1)
             q == IF up THEN NatAdd(s.q, <<1>>) ELSE s.q
         IN  IF e > 971 \/ (e = 971 /\ q = TWO53)
             THEN [overflow |-> TRUE, mag |-> <<>>]
             ELSE [overflow |-> FALSE, mag |-> ShiftLeftBy(q, e)]

\* a JavaScript number with an integer value: NaN, Infinity (inf = 1),
\* -Infinity (inf = -1) or the sign (neg) and the magnitude (mag) of an
\* integer that is a double; zero has a sign too
NaN == [nan |-> TRUE, inf |-> 0, neg |-> FALSE, mag |-> <<>>]
Infinity(sign) == [nan |-> FALSE, inf |-> sign, neg |-> FALSE, mag |-> <<>>]

\* the double nearest to the integer of that sign and magnitude
Double(neg, a) ==
    LET r == RoundToDouble(a)
    IN  IF r.overflow THEN Infinity(IF neg THEN 0 - 1 ELSE 1)
        ELSE [nan |-> FALSE, inf |-> 0, neg |-> neg, mag |-> r.mag]

\* the number of a small integer
Num(n) == Double(n < 0, NatOfInt(IF n < 0 THEN 0 - n ELSE n))

INFINITY == <<"I","n","f","i","n","i","t","y">>

\* -x
Negate(x) ==
    IF x.nan THEN NaN
    ELSE [nan |-> FALSE, inf |-> 0 - x.inf, neg |-> x.inf = 0 /\ ~x.neg, mag |-> x.mag]

\* the natural number a string of decimal digits denotes
DecimalValue(s) == NatStrip([i \in DOMAIN s |-> DigitValue(s[i])])

\* StringToNumber of a string without sign: the decimal integers and Infinity
\* are numbers, the rest is NaN
UnsignedToNumber(s) ==
    IF s = INFINITY THEN Infinity(1)
    ELSE IF Len(s) > 0 /\ \A i \in DOMAIN s : IsDigit(s[i]) THEN Double(FALSE, DecimalValue(s))
    ELSE NaN

\* ToNumber of a field value; of strings, the empty one, the decimal integers
\* and Infinity, with or without a sign, are numbers and the rest is NaN
\* (fractions, exponents, the 0x, 0o and 0b forms and surrounding white space
\* are left out: the strings of the model have none)
ToNumber(v) ==
    IF v.t = "undefined" THEN NaN
    ELSE IF v.t = "null" THEN Num(0)
    ELSE IF v.t = "boolean" THEN Num(IF v.b THEN 1 ELSE 0)
    ELSE IF Len(v.s) = 0 THEN Num(0)
    ELSE IF v.s[1] = "+" THEN UnsignedToNumber(Tail(v.s))
    ELSE IF v.s[1] = "-" THEN Negate(UnsignedToNumber(Tail(v.s)))
    ELSE UnsignedToNumber(v.s)

\* x - y: the double nearest to the exact difference
Subtract(x, y) ==
    IF x.nan \/ y.nan THEN NaN
    ELSE IF x.inf # 0 THEN (IF y.inf = x.inf THEN NaN ELSE x)
    ELSE IF y.inf # 0 THEN Negate(y)
    ELSE IF x.neg # y.neg THEN Double(x.neg, NatAdd(x.mag, y.mag))
    ELSE IF x.mag = y.mag THEN Double(FALSE, <<>>)
    ELSE IF NatLess(y.mag, x.mag) THEN Double(x.neg, NatSub(x.mag, y.mag))
    ELSE Double(~x.neg, NatSub(y.mag, x.mag))

\* what Array.prototype.sort makes of a comparator's result: NaN counts as +0
SortOrder(x) == IF x.nan THEN Num(0) ELSE x

\* order < 0
IsNegative(x) == x.inf < 0 \/ (x.inf = 0 /\ x.neg /\ x.mag # <<>>)

\* Array.prototype.sort, as V8 does it for an array of fewer than 64 elements
\* (one run: CountAndMakeRun, then BinaryInsertionSort of the rest). The
\* array is the list idx of the positions of the elements in the original
\* array, cmp[i][j] is the comparator's result for the elements at the
\* original positions i and j, and indices count from 0 as in V8.
RECURSIVE CountRun(_, _, _, _)
\* the length of the run that starts the array: k is the index of the next
\* element to look at
CountRun(idx, k, isDescending, cmp) ==
    IF k >= Len(idx) THEN k
    ELSE LET order == cmp[idx[k + 1]][idx[k]] IN
         IF isDescending /\ ~IsNegative(order) THEN k
         ELSE IF ~isDescending /\ IsNegative(order) THEN k
         ELSE CountRun(idx, k + 1, isDescending, cmp)

\* ReverseRange(from, to) with from = 0
ReverseRange(idx, to) ==
    [k \in DOMAIN idx |-> IF k <= to THEN idx[to + 1 - k] ELSE idx[k]]

\* CountAndMakeRun(0, length): the run length and the array with the run
\* reversed if it was strictly descending
CountAndMakeRun(idx, cmp) ==
    IF Len(idx) = 1 THEN [runLength |-> 1, idx |-> idx]
    ELSE LET isDescending == IsNegative(cmp[idx[2]][idx[1]])
             runLength == CountRun(idx, 2, isDescending, cmp)
         IN  [runLength |-> runLength,
              idx |-> IF isDescending THEN ReverseRange(idx, runLength) ELSE idx]

RECURSIVE BinarySearch(_, _, _, _, _)
\* the place of pivot among idx[left..right-1]
BinarySearch(idx, left, right, pivot, cmp) ==
    IF left < right
    THEN LET mid == left + ((right - left) \div 2) IN
         IF IsNegative(cmp[pivot][idx[mid + 1]])
         THEN BinarySearch(idx, left, mid, pivot, cmp)
         ELSE BinarySearch(idx, mid + 1, right, pivot, cmp)
    ELSE left

RECURSIVE BinaryInsertionSort(_, _, _)
\* BinaryInsertionSort(0, start, length): idx[0..start-1] is sorted
BinaryInsertionSort(idx, start, cmp) ==
    IF start >= Len(idx) THEN idx
    ELSE LET pivot == idx[start + 1]
             left == BinarySearch(idx, 0, start, pivot, cmp)
         IN  BinaryInsertionSort(
                 SubSeq(idx, 1, left) \o <<pivot>> \o SubSeq(idx, left + 1, start)
                     \o SubSeq(idx, start + 2, Len(idx)),
                 start + 1, cmp)

\* the positions of the elements in sorted order
SortIndices(n, cmp) ==
    IF n < 2 THEN [i \in 1..n |-> i]
    ELSE LET run == CountAndMakeRun([i \in 1..n |-> i], cmp)
         IN  BinaryInsertionSort(run.idx, run.runLength, cmp)

\* arr.sort(comparator), given cmp[i][j], the comparator's result for
\* (arr[i], arr[j]) as sort takes it
ArraySort(arr, cmp) ==
    LET idx == SortIndices(Len(arr), cmp)
    IN  [i \in DOMAIN arr |-> arr[idx[i]]]

\* [...classDefinitions.entries()].sort((a, b) => b[1].namespace - a[1].namespace)
SortByNamespace(m) ==
    ArraySort(m, [i \in DOMAIN m |-> [j \in DOMAIN m |->
        SortOrder(Subtract(ToNumber(Get(m[j].value, P_namespace)),
                           ToNumber(Get(m[i].value, P_namespace))))]])

RECURSIVE BucketReduce(_, _, _)
\* the reduce of domainBuckets: a Map from classInfo.domain to the keys of
\* the records that carry it
BucketReduce(m, i, acc) ==
    IF i > Len(m) THEN acc
    ELSE LET d == Get(m[i].value, P_domain)
             acc1 == IF ~MapHas(acc, d) THEN MapSet(acc, d, <<>>) ELSE acc
         IN  BucketReduce(m, i + 1, MapSet(acc1, d, Append(MapGet(acc1, d), m[i].key)))

\* domainBuckets left in the order of the Map
DomainBucketsUnsorted(m) == BucketReduce(m, 1, <<>>)

\* domainBuckets: the entries of that Map, sorted by descending length
DomainBuckets(m) ==
    LET arr == BucketReduce(m, 1, <<>>)
    IN  ArraySort(arr, [i \in DOMAIN arr |-> [j \in DOMAIN arr |->
            SortOrder(Num(Len(arr[j].value) - Len(arr[i].value)))]])

UNKNOWN == <<"u","n","k","n","o","w","n">>

\* `${domain || 'unknown'}`: the name a domain summary row shows; of the
\* values that are not strings only true is not falsy
DomainLabel(d) ==
    IF Falsy(d) THEN UNKNOWN
    ELSE IF d.t = "string" THEN d.s
    ELSE <<"t","r","u","e">>

\* s.replace('@', '--'): the first occurrence only
ReplaceAt(s) ==
    LET i == IndexOfFrom(s, <<"@">>, 1)
    IN  IF i = 0 THEN s
        ELSE SubSeq(s, 1, i - 1) \o <<"-","-">> \o SubSeq(s, i + 1, Len(s))

\* the cell of a domain: throws is TRUE when (domain || 'unknown').replace is
\* not a function, class is the text after "domain-" otherwise
DomainCell(d) ==
    IF ~Falsy(d) /\ d.t # "string"
    THEN [throws |-> TRUE, class |-> <<>>, label |-> DomainLabel(d)]
    ELSE [throws |-> FALSE, class |-> ReplaceAt(DomainLabel(d)), label |-> DomainLabel(d)]

(* --------------------------- the state machine ------------------------- *)
VARIABLES
    dir,                \* pathToScan: process.argv[2]
    paths,              \* the paths the glob stream yields, in order (ids of Tree)
    cacheFile,          \* the content of ./out/scan-cache.json
    run,                \* number of the current invocation of the tool
    pc,                 \* "start", "enumerating" (inside for await), "returned"
                        \* (getClassData has returned), "exited" (process ended)
    next,               \* position in paths of the next path of the for await loop
    pending,            \* files whose fs.readFile has been issued and not completed
    parser,             \* the language the shared parser is set to
    classDefinitions,   \* the Map built by scan(), or the one loadCache() returned
    phpFileCount,
    frontendFileCount,
    exitCode,           \* the exit status, once pc = "exited"
    returned,           \* what getClassData returned: "no", "cached", "scanned"
    saves,              \* number of saveCache calls of this run
    cacheAtStart,       \* the cache file as this run found it
    last,               \* the last step taken and the file it was about
    tree,               \* the syntax tree of the last parse: its language and file
    classesSortedByNamespace,   \* the listing of the report
    domainBuckets       \* the domain summary of the report

vars == <<dir, paths, cacheFile, run, pc, next, pending, parser, classDefinitions,
          phpFileCount, frontendFileCount, exitCode, returned, saves,
          cacheAtStart, last, tree, classesSortedByNamespace, domainBuckets>>

Step(op, id) == [op |-> op, file |-> id]

\* the cache file an earlier scan of another tree wrote: a class and two
\* scripting files without a marker
StaleEnvelope ==
    JsonDoc("envelope",
        << [key |-> <<"\"","N","\\","\\","A","\"">>,
            members |-> << Prop(<<"\"","i","s","I","n","t","e","r","n","a","l","\"">>, Bool(FALSE)),
                           Prop(<<"\"","i","s","F","i","n","a","l","\"">>, Bool(TRUE)),
                           Prop(<<"\"","n","a","m","e","s","p","a","c","e","\"">>, Str(<<"\"","N","\"">>)),
                           Prop(<<"\"","c","l","a","s","s","N","a","m","e","\"">>, Str(<<"\"","A","\"">>)),
                           Prop(<<"\"","f","i","l","e","N","a","m","e","\"">>, Str(<<"\"","o","l","d",".","p","h","p","\"">>)),
                           Prop(<<"\"","d","o","m","a","i","n","\"">>, Str(<<"\"","c","o","r","e","\"">>)) >>],
           [key |-> <<"\"","o","l","d",".","j","s","\"">>,
            members |-> << Prop(<<"\"","i","s","I","n","t","e","r","n","a","l","\"">>, Bool(TRUE)),
                           Prop(<<"\"","i","s","F","i","n","a","l","\"">>, Null),
                           Prop(<<"\"","n","a","m","e","s","p","a","c","e","\"">>, Null),
                           Prop(<<"\"","c","l","a","s","s","N","a","m","e","\"">>, Null),
                           Prop(<<"\"","f","i","l","e","N","a","m","e","\"">>, Str(<<"\"","o","l","d",".","j","s","\"">>)),
                           Prop(<<"\"","d","o","m","a","i","n","\"">>, Null) >>],
           [key |-> <<"\"","o","l","d",".","t","s","\"">>,
            members |-> << Prop(<<"\"","i","s","I","n","t","e","r","n","a","l","\"">>, Bool(FALSE)),
                           Prop(<<"\"","i","s","F","i","n","a","l","\"">>, Null),
                           Prop(<<"\"","n","a","m","e","s","p","a","c","e","\"">>, Null),
                           Prop(<<"\"","c","l","a","s","s","N","a","m","e","\"">>, Null),
                           Prop(<<"\"","f","i","l","e","N","a","m","e","\"">>, Str(<<"\"","o","l","d",".","t","s","\"">>)),
                           Prop(<<"\"","d","o","m","a","i","n","\"">>, Null) >>] >>)

\* the cache files a first run may find
InitialCacheFiles ==
    {NoFile} \cup
    {FileWith(JsonDoc(shape, <<>>)) :
        shape \in {"unparseable", "null", "primitive", "noField", "fieldNull",
                   "fieldNumber", "badEntries"}} \cup
    {FileWith(StaleEnvelope)}

Init ==
    /\ dir \in Dirs
    /\ paths \in {s \in UNION {[1..n -> FileIds] : n \in 0..MaxFiles} :
                    \A i, j \in DOMAIN s : i # j => s[i] # s[j]}
    /\ cacheFile \in InitialCacheFiles
    \* the course of a scan does not depend on why loadCache() found no cache:
    \* trees of several files are explored from a missing cache file and from
    \* a stale envelope, the other cache files meet trees of at most one file
    /\ (cacheFile.exists /\ cacheFile.doc.shape # "envelope") => Len(paths) <= 1
    /\ run = 1
    /\ pc = "start"
    /\ next = 1
    /\ pending = {}
    /\ parser = "Php"
    /\ classDefinitions = <<>>
    /\ phpFileCount = 0
    /\ frontendFileCount = 0
    /\ exitCode = 0
    /\ returned = "no"
    /\ saves = 0
    /\ cacheAtStart = cacheFile
    /\ last = Step("init", 0)
    /\ tree = Parse("", 0)
    /\ classesSortedByNamespace = <<>>
    /\ domainBuckets = <<>>

\* getClassData, cache found: loadCache() returns a store, which is returned
GetClassDataCached ==
    /\ pc = "start"
    /\ loadCache(cacheFile).found
    /\ classDefinitions' = loadCache(cacheFile).classDefinitions
    /\ returned' = "cached"
    /\ pc' = "returned"
    /\ last' = Step("cached", 0)
    /\ UNCHANGED <<dir, paths, cacheFile, run, next, pending, parser,
                   phpFileCount, frontendFileCount, exitCode, saves, cacheAtStart>>
    /\ classesSortedByNamespace' = SortByNamespace(classDefinitions')
    /\ domainBuckets' = DomainBuckets(classDefinitions')
    /\ UNCHANGED tree

\* getClassData scanning without looking at what loadCache() returned
GetClassDataScanAlways ==
    /\ pc = "start"
    /\ classDefinitions' = <<>>
    /\ phpFileCount' = 0
    /\ frontendFileCount' = 0
    /\ pc' = "enumerating"
    /\ last' = Step("scan", 0)
    /\ UNCHANGED <<dir, paths, cacheFile, run, next, pending, parser, exitCode,
                   returned, saves, cacheAtStart>>
    /\ UNCHANGED <<tree, classesSortedByNamespace, domainBuckets>>

\* getClassData, no cache: scan() starts, scanFiles() opens the glob stream
\* and waits for its first path
GetClassDataScan ==
    /\ pc = "start"
    /\ ~loadCache(cacheFile).found
    /\ classDefinitions' = <<>>
    /\ phpFileCount' = 0
    /\ frontendFileCount' = 0
    /\ pc' = "enumerating"
    /\ last' = Step("scan", 0)
    /\ UNCHANGED <<dir, paths, cacheFile, run, next, pending, parser, exitCode,
                   returned, saves, cacheAtStart>>
    /\ UNCHANGED <<tree, classesSortedByNamespace, domainBuckets>>

\* one iteration of the for await loop of scanFiles: the read of the next
\* path is issued and the loop waits for the following path
ScanFilesNext ==
    /\ pc = "enumerating"
    /\ next <= Len(paths)
    /\ pending' = pending \cup {paths[next]}
    /\ next' = next + 1
    /\ last' = Step("readFile", paths[next])
    /\ UNCHANGED <<dir, paths, cacheFile, run, pc, parser, classDefinitions,
                   phpFileCount, frontendFileCount, exitCode, returned, saves,
                   cacheAtStart>>
    /\ UNCHANGED <<tree, classesSortedByNamespace, domainBuckets>>

\* the glob stream ends: scanFiles() resolves, scan() returns its Map,
\* getClassData saves it and returns it
ScanFilesEnd ==
    /\ pc = "enumerating"
    /\ next > Len(paths)
    /\ cacheFile' = saveCache(classDefinitions)
    /\ saves' = saves + 1
    /\ returned' = "scanned"
    /\ pc' = "returned"
    /\ last' = Step("save", 0)
    /\ UNCHANGED <<dir, paths, run, next, pending, parser, classDefinitions,
                   phpFileCount, frontendFileCount, exitCode, cacheAtStart>>
    /\ classesSortedByNamespace' = SortByNamespace(classDefinitions)
    /\ domainBuckets' = DomainBuckets(classDefinitions)
    /\ UNCHANGED tree

\* the readFile callback ending the process on a read error
ReadFileErrorExits(id) ==
    /\ pc \in {"enumerating", "returned"}
    /\ id \in pending
    /\ ~Tree[id].readable
    /\ pending' = pending \ {id}
    /\ pc' = "exited"
    /\ exitCode' = 1
    /\ last' = Step("readError", id)
    /\ UNCHANGED <<dir, paths, cacheFile, run, next, parser, classDefinitions,
                   phpFileCount, frontendFileCount, returned, saves, cacheAtStart>>
    /\ UNCHANGED <<tree, classesSortedByNamespace, domainBuckets>>

\* the readFile callback with err set: the error is logged, nothing else
ReadFileError(id) ==
    /\ pc \in {"enumerating", "returned"}
    /\ id \in pending
    /\ ~Tree[id].readable
    /\ pending' = pending \ {id}
    /\ last' = Step("readError", id)
    /\ UNCHANGED <<dir, paths, cacheFile, run, pc, next, parser, classDefinitions,
                   phpFileCount, frontendFileCount, exitCode, returned, saves,
                   cacheAtStart>>
    /\ UNCHANGED <<tree, classesSortedByNamespace, domainBuckets>>

\* the language the callback of scan() selects for a file type, "" for none
Dialect(filetype) ==
    IF filetype = EXT_PHP THEN "Php"
    ELSE IF filetype \in {EXT_JS, EXT_TS} THEN "TypeScript"
    ELSE ""

\* the callback logging a parse failure and going on with the next file
ScanCallbackSkipOnError(id) ==
    LET globPath == Tree[id].p
        filePath == PathJoin(dir, globPath)
        lang == Dialect(PathExtname(filePath))
    IN  IF lang = ""
        THEN /\ last' = Step("ignored", id)
             /\ UNCHANGED <<parser, tree, classDefinitions, phpFileCount,
                            frontendFileCount, pc, exitCode>>
        ELSE /\ parser' = lang
             /\ IF Tree[id].tooBig
                THEN /\ last' = Step("parseError", id)
                     /\ UNCHANGED <<pc, exitCode, tree, classDefinitions, phpFileCount,
                                    frontendFileCount>>
                ELSE /\ last' = Step("extract", id)
                     /\ tree' = Parse(parser', id)
                     /\ UNCHANGED <<pc, exitCode>>
                     /\ IF lang = "Php"
                        THEN /\ classDefinitions' =
                                  queryClassDefinitions(tree', globPath,
                                                        filePath, classDefinitions)
                             /\ phpFileCount' = phpFileCount + 1
                             /\ UNCHANGED frontendFileCount
                        ELSE /\ classDefinitions' =
                                  queryFrontendDefinitions(tree', globPath,
                                                           filePath, classDefinitions)
                             /\ frontendFileCount' = frontendFileCount + 1
                             /\ UNCHANGED phpFileCount

\* the callback parsing with whatever language the parser was left in
ScanCallbackNoSetLanguage(id) ==
    LET globPath == Tree[id].p
        filePath == PathJoin(dir, globPath)
        lang == Dialect(PathExtname(filePath))
    IN  IF lang = ""
        THEN /\ last' = Step("ignored", id)
             /\ UNCHANGED <<parser, tree, classDefinitions, phpFileCount,
                            frontendFileCount, pc, exitCode>>
        ELSE /\ UNCHANGED parser
             /\ IF Tree[id].tooBig
                THEN /\ pc' = "exited"
                     /\ exitCode' = 1
                     /\ last' = Step("parseError", id)
                     /\ UNCHANGED <<tree, classDefinitions, phpFileCount,
                                    frontendFileCount>>
                ELSE /\ last' = Step("extract", id)
                     /\ tree' = Parse(parser', id)
                     /\ UNCHANGED <<pc, exitCode>>
                     /\ IF lang = "Php"
                        THEN /\ classDefinitions' =
                                  queryClassDefinitions(tree', globPath,
                                                        filePath, classDefinitions)
                             /\ phpFileCount' = phpFileCount + 1
                             /\ UNCHANGED frontendFileCount
                        ELSE /\ classDefinitions' =
                                  queryFrontendDefinitions(tree', globPath,
                                                           filePath, classDefinitions)
                             /\ frontendFileCount' = frontendFileCount + 1
                             /\ UNCHANGED phpFileCount

\* the callback scan() passes to scanFiles: it sets the parser's language
\* from the file type, parses and extracts; an exception thrown on the way
\* ends the process with status 1
ScanCallback(id) ==
    LET globPath == Tree[id].p
        filePath == PathJoin(dir, globPath)
        lang == Dialect(PathExtname(filePath))
    IN  IF lang = ""
        THEN /\ last' = Step("ignored", id)
             /\ UNCHANGED <<parser, tree, classDefinitions, phpFileCount,
                            frontendFileCount, pc, exitCode>>
        ELSE /\ parser' = lang
             /\ IF Tree[id].tooBig
                THEN /\ pc' = "exited"
                     /\ exitCode' = 1
                     /\ last' = Step("parseError", id)
                     /\ UNCHANGED <<tree, classDefinitions, phpFileCount,
                                    frontendFileCount>>
                ELSE /\ last' = Step("extract", id)
                     /\ tree' = Parse(parser', id)
                     /\ UNCHANGED <<pc, exitCode>>
                     /\ IF lang = "Php"
                        THEN /\ classDefinitions' =
                                  queryClassDefinitions(tree', globPath,
                                                        filePath, classDefinitions)
                             /\ phpFileCount' = phpFileCount + 1
                             /\ UNCHANGED frontendFileCount
                        ELSE /\ classDefinitions' =
                                  queryFrontendDefinitions(tree', globPath,
                                                           filePath, classDefinitions)
                             /\ frontendFileCount' = frontendFileCount + 1
                             /\ UNCHANGED phpFileCount

\* the readFile callback with data: the callback of scan() runs to its end
ReadFileCallback(id) ==
    /\ pc \in {"enumerating", "returned"}
    /\ id \in pending
    /\ Tree[id].readable
    /\ pending' = pending \ {id}
    /\ ScanCallback(id)
    /\ UNCHANGED <<dir, paths, cacheFile, run, next, returned, saves, cacheAtStart>>
    /\ UNCHANGED <<classesSortedByNamespace, domainBuckets>>

\* the event loop runs dry after getClassData has returned: the process ends
ProcessEnd ==
    /\ pc = "returned"
    /\ pending = {}
    /\ pc' = "exited"
    /\ exitCode' = 0
    /\ last' = Step("end", 0)
    /\ UNCHANGED <<dir, paths, cacheFile, run, next, pending, parser,
                   classDefinitions, phpFileCount, frontendFileCount, returned,
                   saves, cacheAtStart>>
    /\ UNCHANGED <<tree, classesSortedByNamespace, domainBuckets>>

\* the tool is invoked again on the same tree, with ./out as the last run left it
Rerun ==
    /\ pc = "exited"
    /\ run < MaxRuns
    /\ run' = run + 1
    /\ pc' = "start"
    /\ next' = 1
    /\ pending' = {}
    /\ parser' = "Php"
    /\ classDefinitions' = <<>>
    /\ phpFileCount' = 0
    /\ frontendFileCount' = 0
    /\ exitCode' = 0
    /\ returned' = "no"
    /\ saves' = 0
    /\ cacheAtStart' = cacheFile
    /\ last' = Step("init", 0)
    /\ UNCHANGED <<dir, paths, cacheFile>>
    /\ tree' = Parse("", 0)
    /\ classesSortedByNamespace' = <<>>
    /\ domainBuckets' = <<>>

Next ==
    \/ GetClassDataCached
    \/ GetClassDataScan
    \/ ScanFilesNext
    \/ ScanFilesEnd
    \/ \E id \in FileIds : ReadFileError(id)
    \/ \E id \in FileIds : ReadFileCallback(id)
    \/ ProcessEnd
    \/ Rerun

Spec == Init /\ [][Next]_vars

(* ------------------------------ properties ----------------------------- *)
\* the fields of a DefinitionRecord
Fields == {P_isInternal, P_isFinal, P_namespace, P_className, P_fileName, P_domain}

Keys(m) == {m[i].key : i \in DOMAIN m}

\* the entries of m stored under key k
EntriesAt(m, k) == {i \in DOMAIN m : m[i].key = k}

\* two stores with the same key set whose records agree on every field
SameStore(m1, m2) ==
    /\ Keys(m1) = Keys(m2)
    /\ \A i \in DOMAIN m1 : \A j \in DOMAIN m2 :
          m1[i].key = m2[j].key =>
              \A f \in Fields : Get(m1[i].value, f) = Get(m2[j].value, f)

\* store m holds what the envelope text says, entry by entry
HoldsEnvelope(m, doc) ==
    /\ Len(m) = Len(doc.entries)
    /\ \A i \in DOMAIN m :
          /\ JsonQuote(m[i].key) = doc.entries[i].key
          /\ \A f \in Fields :
                LET here == {j \in DOMAIN doc.entries[i].members :
                                doc.entries[i].members[j].name = JsonQuote(f)}
                IN  IF here = {} THEN Get(m[i].value, f) = Undefined
                    ELSE \A j \in here :
                            JsonValue(Get(m[i].value, f)) = doc.entries[i].members[j].val

\* C1: a run that finds a cache file holding an envelope returns the store
\* the file holds, enumerates, reads and parses no source file, does not call
\* saveCache and leaves the cache file as it was.
C1_CacheHit ==
    (pc # "start" /\ cacheAtStart.exists /\ cacheAtStart.doc.shape = "envelope") =>
        /\ returned = "cached"
        /\ HoldsEnvelope(classDefinitions, cacheAtStart.doc)
        /\ next = 1
        /\ pending = {}
        /\ phpFileCount = 0
        /\ frontendFileCount = 0
        /\ saves = 0
        /\ cacheFile = cacheAtStart

\* a second run has returned the non-empty store the first run's scan saved,
\* on a tree that has files to read
C1_Witness ==
    /\ run = 2
    /\ returned = "cached"
    /\ pc = "exited"
    /\ Len(classDefinitions) = 2
    /\ Len(paths) = 2

\* C2 (as claimed): when the cache has just been written and the store
\* returned, no file read is outstanding.
C2_SaveOnlyWhenComplete ==
    last.op = "save" => pending = {}

\* C3: for every store the program builds or loads, saveCache followed by
\* loadCache yields a store with the same key set and the same value of every
\* field of every record; in particular for the file a scan has just written.
C3_RoundTrip ==
    /\ LET again == loadCache(saveCache(classDefinitions))
       IN  again.found /\ SameStore(again.classDefinitions, classDefinitions)
    /\ last.op = "save" =>
          LET loaded == loadCache(cacheFile)
          IN  loaded.found /\ SameStore(loaded.classDefinitions, classDefinitions)

\* a scan has just saved a store that holds the class record of the file
\* whose name has a tab, under a key with a backslash, and a scripting record
\* whose namespace, className and isFinal are null
C3_Witness ==
    /\ last.op = "save"
    /\ \E i \in DOMAIN classDefinitions :
          /\ Get(classDefinitions[i].value, P_namespace).t = "string"
          /\ Get(classDefinitions[i].value, P_fileName) = Str(Tree[4].p)
          /\ \E k \in DOMAIN Tree[4].p : Tree[4].p[k] = "\t"
          /\ \E k \in DOMAIN classDefinitions[i].key : classDefinitions[i].key[k] = BACKSLASH
    /\ \E i \in DOMAIN classDefinitions :
          /\ Get(classDefinitions[i].value, P_namespace) = Null
          /\ Get(classDefinitions[i].value, P_className) = Null
          /\ Get(classDefinitions[i].value, P_isFinal) = Null

\* the full path scanFiles hands to the callback for file id
FilePathOf(id) == PathJoin(dir, Tree[id].p)

\* the file is one of the class-based dialect
IsPhp(id) == PathExtname(Tree[id].p) = EXT_PHP

\* the query returned a capture of that name for the file
HasCapture(id, n) == \E i \in DOMAIN Tree[id].captures : Tree[id].captures[i].name = n

\* this step is the completion of the read of file id
Completes(id) == run' = run /\ id \in pending /\ pending' = pending \ {id}

\* this step is the extraction of file id: its read succeeded and it parsed
Extracts(id) == Completes(id) /\ Tree[id].readable /\ ~Tree[id].tooBig

NoDuplicateKeys(m) == \A i, j \in DOMAIN m : m[i].key = m[j].key => i = j

\* every entry of m under a key other than k is an entry of n
OthersKept(m, n, k) ==
    \A i \in DOMAIN m : m[i].key # k => \E j \in DOMAIN n : n[j] = m[i]

\* the store the extractor of file id builds from an empty one
Alone(id) ==
    IF IsPhp(id)
    THEN queryClassDefinitions(Parse("Php", id), Tree[id].p, FilePathOf(id), <<>>)
    ELSE queryFrontendDefinitions(Parse("TypeScript", id), Tree[id].p, FilePathOf(id), <<>>)

\* C4: the store never holds two records under one key, and an extraction
\* that inserts record B under key k leaves exactly B under k, whatever was
\* there before, and every other key as it was.
C4_InsertOrOverwrite ==
    /\ []NoDuplicateKeys(classDefinitions)
    /\ [][\A id \in FileIds : Extracts(id) =>
            LET b == Alone(id) IN
            IF b = <<>> THEN classDefinitions' = classDefinitions
            ELSE /\ Cardinality(EntriesAt(classDefinitions', b[1].key)) = 1
                 /\ \A i \in EntriesAt(classDefinitions', b[1].key) :
                       classDefinitions'[i].value = b[1].value
                 /\ Keys(classDefinitions') = Keys(classDefinitions) \cup {b[1].key}
                 /\ OthersKept(classDefinitions, classDefinitions', b[1].key)
                 /\ OthersKept(classDefinitions', classDefinitions, b[1].key)]_vars

\* b.php has just overwritten the record a.php had inserted under N\A
C4_Witness ==
    /\ last = Step("extract", 2)
    /\ phpFileCount = 2
    /\ 1 \in {paths[i] : i \in DOMAIN paths}
    /\ Len(classDefinitions) = 1
    /\ Get(classDefinitions[1].value, P_fileName) = Str(Tree[2].p)
    /\ Get(classDefinitions[1].value, P_isFinal) = Bool(TRUE)

\* C5: the class-based extractor inserts nothing for a capture set without a
\* namespace capture or without a class-name capture, and every record of a
\* scanned store that has a namespace has a className.
C5_NamespaceAndClassRequired ==
    /\ [](returned # "cached" =>
            \A i \in DOMAIN classDefinitions :
                Get(classDefinitions[i].value, P_namespace).t = "string" =>
                    /\ Get(classDefinitions[i].value, P_className).t = "string"
                    /\ Len(Get(classDefinitions[i].value, P_className).s) > 0)
    /\ [][\A id \in FileIds :
            (/\ Extracts(id)
             /\ IsPhp(id)
             /\ ~HasCapture(id, "namespace") \/ ~HasCapture(id, "classname")) =>
                classDefinitions' = classDefinitions]_vars

\* c.php, for which the query returns no capture, has been extracted after
\* a.php and the store holds the record of a.php alone
C5_Witness ==
    /\ {paths[i] : i \in DOMAIN paths} = {1, 3}
    /\ last = Step("extract", 3)
    /\ phpFileCount = 2
    /\ pending = {}
    /\ Len(classDefinitions) = 1
    /\ Get(classDefinitions[1].value, P_fileName) = Str(Tree[1].p)

\* C6: a parse failure ends the process with status 1 and inserts nothing, and
\* once the process has ended no further file is extracted in that run.
C6_ParseFailureIsFatal ==
    [][/\ \A id \in FileIds :
            (Completes(id) /\ Tree[id].readable /\ Tree[id].tooBig) =>
                /\ pc' = "exited"
                /\ exitCode' = 1
                /\ classDefinitions' = classDefinitions
       /\ pc = "exited" => run' = run + 1]_vars

\* i.js has failed to parse while the read of another file was outstanding
C6_Witness ==
    /\ last = Step("parseError", 9)
    /\ pc = "exited"
    /\ exitCode = 1
    /\ pending # {}

\* C7: a failed read changes neither the store nor the course of the run, and
\* a run that ends normally has dispatched every enumerated file whose read
\* succeeded.
C7_ReadFailureIsSkipped ==
    /\ []((pc = "exited" /\ exitCode = 0 /\ returned = "scanned") =>
            phpFileCount + frontendFileCount =
                Cardinality({i \in DOMAIN paths : Tree[paths[i]].readable}))
    /\ [][\A id \in FileIds :
            (Completes(id) /\ ~Tree[id].readable) =>
                /\ classDefinitions' = classDefinitions
                /\ pc' = pc
                /\ exitCode' = exitCode
                /\ next' = next
                /\ phpFileCount' = phpFileCount
                /\ frontendFileCount' = frontendFileCount
                /\ cacheFile' = cacheFile]_vars

\* the read of h.php has failed and a.php has been extracted after it
C7_Witness ==
    /\ last = Step("extract", 1)
    /\ \E i \in DOMAIN paths : i < next /\ paths[i] = 8
    /\ 8 \notin pending
    /\ Len(classDefinitions) = 1

\* C8 (as claimed): a cache file that does not hold a well-formed envelope is
\* never returned as cached data.
C8_MalformedMeansNoCache ==
    (pc # "start" /\ cacheAtStart.exists /\ cacheAtStart.doc.shape # "envelope") =>
        returned # "cached"

\* C9: the extraction of a scripting file leaves exactly one record under the
\* file's path, with namespace, className and isFinal null, adds no other
\* record and changes no other one.
C9_ScriptingRecord ==
    [][\A id \in FileIds : (Extracts(id) /\ ~IsPhp(id)) =>
          LET k == FilePathOf(id) IN
          /\ Cardinality(EntriesAt(classDefinitions', k)) = 1
          /\ \A i \in EntriesAt(classDefinitions', k) :
                /\ Get(classDefinitions'[i].value, P_namespace) = Null
                /\ Get(classDefinitions'[i].value, P_className) = Null
                /\ Get(classDefinitions'[i].value, P_isFinal) = Null
          /\ Keys(classDefinitions') = Keys(classDefinitions) \cup {k}
          /\ Len(classDefinitions') =
                Len(classDefinitions) + (IF k \in Keys(classDefinitions) THEN 0 ELSE 1)
          /\ OthersKept(classDefinitions, classDefinitions', k)]_vars

\* f.js (three comments) and lib/g.ts (no comment) have both been extracted
C9_Witness ==
    /\ {paths[i] : i \in DOMAIN paths} = {6, 7}
    /\ frontendFileCount = 2
    /\ Keys(classDefinitions) = {FilePathOf(6), FilePathOf(7)}
    /\ last = Step("extract", 7)

\* text contains the token tok
ContainsToken(text, tok) ==
    \E j \in 1..Len(text) :
        /\ j + Len(tok) - 1 <= Len(text)
        /\ \A n \in 1..Len(tok) : text[j + n - 1] = tok[n]

\* some comment capture of the file contains the token
SomeCommentHas(id, tok) ==
    \E i \in DOMAIN Tree[id].captures :
        /\ Tree[id].captures[i].name = "comment"
        /\ ContainsToken(Tree[id].captures[i].text, tok)

\* C10: the record the class-based extractor produces for a file has
\* isInternal true exactly when some captured comment of the file contains
\* '@internal', false otherwise.
C10_IsInternal ==
    [][\A id \in FileIds :
          (/\ Extracts(id)
           /\ IsPhp(id)
           /\ HasCapture(id, "namespace")
           /\ HasCapture(id, "classname")) =>
              /\ \E i \in DOMAIN classDefinitions' :
                    Get(classDefinitions'[i].value, P_fileName) = Str(Tree[id].p)
              /\ \A i \in DOMAIN classDefinitions' :
                    Get(classDefinitions'[i].value, P_fileName) = Str(Tree[id].p) =>
                        Get(classDefinitions'[i].value, P_isInternal) =
                            Bool(SomeCommentHas(id, INTERNAL))]_vars

\* the store holds the record of b.php, internal by its second comment, and
\* the record of e.php, whose only comment lacks the marker
C10_Witness ==
    /\ \E i \in DOMAIN classDefinitions :
          /\ Get(classDefinitions[i].value, P_fileName) = Str(Tree[2].p)
          /\ Get(classDefinitions[i].value, P_isInternal) = Bool(TRUE)
    /\ \E i \in DOMAIN classDefinitions :
          /\ Get(classDefinitions[i].value, P_fileName) = Str(Tree[5].p)
          /\ Get(classDefinitions[i].value, P_isInternal) = Bool(FALSE)
    /\ returned # "cached"

\* C11: the record the class-based extractor produces for a file has isFinal
\* true exactly when the file has a sealing-keyword capture or some captured
\* comment of it contains '@final', and the boolean false otherwise.
C11_IsFinal ==
    [][\A id \in FileIds :
          (/\ Extracts(id)
           /\ IsPhp(id)
           /\ HasCapture(id, "namespace")
           /\ HasCapture(id, "classname")) =>
              /\ \E i \in DOMAIN classDefinitions' :
                    Get(classDefinitions'[i].value, P_fileName) = Str(Tree[id].p)
              /\ \A i \in DOMAIN classDefinitions' :
                    Get(classDefinitions'[i].value, P_fileName) = Str(Tree[id].p) =>
                        Get(classDefinitions'[i].value, P_isFinal) =
                            Bool(HasCapture(id, "finalkeyword") \/ SomeCommentHas(id, FINAL))]_vars

\* the store holds the record of e.php (final by keyword) and either the
\* record of b.php (final by its second comment) or the one of a.php (neither
\* signal, isFinal false), whichever overwrote the other under N\A
C11_Witness ==
    /\ returned # "cached"
    /\ \E i \in DOMAIN classDefinitions :
          /\ Get(classDefinitions[i].value, P_fileName) = Str(Tree[5].p)
          /\ Get(classDefinitions[i].value, P_isFinal) = Bool(TRUE)
    /\ \/ \E i \in DOMAIN classDefinitions :
             /\ Get(classDefinitions[i].value, P_fileName) = Str(Tree[2].p)
             /\ Get(classDefinitions[i].value, P_isFinal) = Bool(TRUE)
             /\ ~HasCapture(2, "finalkeyword")
       \/ \E i \in DOMAIN classDefinitions :
             /\ Get(classDefinitions[i].value, P_fileName) = Str(Tree[1].p)
             /\ Get(classDefinitions[i].value, P_isFinal) = Bool(FALSE)

\* the report has just been computed from the store getClassData returned
ReportJustMade == last.op \in {"save", "cached"}

\* the places <<bucket, position>> of the domain summary that name key k
PlacesOf(k) ==
    {bp \in (DOMAIN domainBuckets) \X (1..Len(classDefinitions)) :
        /\ bp[2] <= Len(domainBuckets[bp[1]].value)
        /\ domainBuckets[bp[1]].value[bp[2]] = k}

\* a record without a domain: the value is null or undefined
AbsentDomain(e) == Get(e.value, P_domain) \in {Null, Undefined}

\* C12: in the domain summary of a report every record of the store is counted
\* in exactly one bucket, the one of its domain; the buckets hold nothing else
\* and there is one per distinct domain; all records without a domain are in
\* one single bucket, shown as "unknown"; and the buckets come in descending
\* count.
C12_DomainBucketsPartition ==
    ReportJustMade =>
        /\ \A i \in DOMAIN classDefinitions :
              /\ Cardinality(PlacesOf(classDefinitions[i].key)) = 1
              /\ \A bp \in PlacesOf(classDefinitions[i].key) :
                    /\ domainBuckets[bp[1]].key = Get(classDefinitions[i].value, P_domain)
                    /\ DomainLabel(domainBuckets[bp[1]].key) =
                          DomainLabel(Get(classDefinitions[i].value, P_domain))
        /\ \A b \in DOMAIN domainBuckets :
              /\ domainBuckets[b].value # <<>>
              /\ \A j \in DOMAIN domainBuckets[b].value :
                    domainBuckets[b].value[j] \in Keys(classDefinitions)
        /\ \A b1, b2 \in DOMAIN domainBuckets :
              domainBuckets[b1].key = domainBuckets[b2].key => b1 = b2
        /\ \A i, j \in DOMAIN classDefinitions :
              (AbsentDomain(classDefinitions[i]) /\ AbsentDomain(classDefinitions[j])) =>
                  \A bi \in PlacesOf(classDefinitions[i].key),
                     bj \in PlacesOf(classDefinitions[j].key) :
                      /\ bi[1] = bj[1]
                      /\ DomainLabel(domainBuckets[bi[1]].key) = UNKNOWN
        /\ \A b1, b2 \in DOMAIN domainBuckets :
              b1 < b2 => Len(domainBuckets[b1].value) >= Len(domainBuckets[b2].value)

\* the report of a store whose first record carries a domain and whose two
\* other records carry none: the bucket of the two, shown as "unknown", has
\* been sorted ahead of the bucket of the first record
C12_Witness ==
    /\ ReportJustMade
    /\ Len(classDefinitions) = 3
    /\ Get(classDefinitions[1].value, P_domain).t = "string"
    /\ AbsentDomain(classDefinitions[2])
    /\ AbsentDomain(classDefinitions[3])
    /\ Len(domainBuckets) = 2
    /\ DomainLabel(domainBuckets[1].key) = UNKNOWN
    /\ domainBuckets[1].value = <<classDefinitions[2].key, classDefinitions[3].key>>
    /\ domainBuckets[2].key = Get(classDefinitions[1].value, P_domain)
    /\ domainBuckets[2].value = <<classDefinitions[1].key>>

\* characters in ascending code order once upper case is folded to lower case
CodeOrder == <<" ", "*", "-", ".", "/", "0", "1", "2", "3", "4", "5", "6", "7", "8", "9", "@", "\\", "_", "a", "b", "c", "d", "e", "f", "g", "h", "i", "j", "k", "l", "m", "n", "o", "p", "q", "r", "s", "t", "u", "v", "w", "x", "y", "z">>
UpperCase == <<"A", "B", "C", "D", "E", "F", "G", "H", "I", "J", "K", "L", "M", "N", "O", "P", "Q", "R", "S", "T", "U", "V", "W", "X", "Y", "Z">>
LowerCase == <<"a", "b", "c", "d", "e", "f", "g", "h", "i", "j", "k", "l", "m", "n", "o", "p", "q", "r", "s", "t", "u", "v", "w", "x", "y", "z">>

ToLower(c) ==
    IF \E i \in DOMAIN UpperCase : UpperCase[i] = c
    THEN LowerCase[CHOOSE i \in DOMAIN UpperCase : UpperCase[i] = c]
    ELSE c

Rank(c) == CHOOSE i \in DOMAIN CodeOrder : CodeOrder[i] = ToLower(c)

\* a <= b in case-insensitive lexical order
LexLeq(a, b) ==
    \/ \E i \in 1..Len(a) :
          /\ i <= Len(b)
          /\ Rank(a[i]) < Rank(b[i])
          /\ \A j \in 1..(i - 1) : Rank(a[j]) = Rank(b[j])
    \/ /\ Len(a) <= Len(b)
       /\ \A j \in 1..Len(a) : Rank(a[j]) = Rank(b[j])

\* what the listing is to be ordered by: the namespace if present, else the
\* fileName
ListingKey(e) ==
    IF Get(e.value, P_namespace).t = "string"
    THEN Get(e.value, P_namespace).s
    ELSE Get(e.value, P_fileName).s

\* C13 (as claimed): the listing holds every record of the store exactly once,
\* in case-insensitive lexical order of namespace, or fileName where there is
\* no namespace.
C13_ListingSorted ==
    ReportJustMade =>
        /\ Len(classesSortedByNamespace) = Len(classDefinitions)
        /\ \A i \in DOMAIN classDefinitions :
              Cardinality({j \in DOMAIN classesSortedByNamespace :
                              classesSortedByNamespace[j] = classDefinitions[i]}) = 1
        /\ \A i, j \in DOMAIN classesSortedByNamespace :
              i < j => LexLeq(ListingKey(classesSortedByNamespace[i]),
                              ListingKey(classesSortedByNamespace[j]))

\* the language the file's extension selects
OwnDialect(id) == IF IsPhp(id) THEN "Php" ELSE "TypeScript"

\* C14: whenever the callback handles a file, in whatever order the reads
\* complete, the shared parser is set to the dialect of that file's extension
\* when it parses, and the tree it extracts from is that file's tree in that
\* dialect.
C14_ParseUnderOwnDialect ==
    [][\A id \in FileIds : (Completes(id) /\ Tree[id].readable) =>
          /\ parser' = OwnDialect(id)
          /\ ~Tree[id].tooBig => tree' = [lang |-> OwnDialect(id), file |-> id]]_vars

\* a.php was enumerated before f.js, the read of f.js completed first and
\* left the parser in the scripting dialect, and a.php has now been parsed
C14_Witness ==
    /\ paths = <<1, 6>>
    /\ frontendFileCount = 1
    /\ last = Step("extract", 1)
    /\ parser = "Php"
    /\ tree = [lang |-> "Php", file |-> 1]
    /\ Len(classDefinitions) = 2

\* the run has ended normally after a scan: every read has completed
ScanEndedNormally == pc = "exited" /\ exitCode = 0 /\ returned = "scanned"

\* files id1 and id2 both yield a record, under the same key
SameKey(id1, id2) ==
    /\ Tree[id1].readable /\ ~Tree[id1].tooBig
    /\ Tree[id2].readable /\ ~Tree[id2].tooBig
    /\ Alone(id1) # <<>>
    /\ Alone(id2) # <<>>
    /\ Alone(id1)[1].key = Alone(id2)[1].key

\* C15 (as claimed): of two files that yield the same key, the one enumerated
\* earlier never owns the record the store holds once the scan is over,
\* whatever the order in which the reads completed.
C15_LastEnumeratedWins ==
    ScanEndedNormally =>
        \A i, j \in DOMAIN paths :
            (i < j /\ SameKey(paths[i], paths[j])) =>
                \A e \in EntriesAt(classDefinitions, Alone(paths[i])[1].key) :
                    Get(classDefinitions[e].value, P_fileName) # Str(Tree[paths[i]].p)

\* C16 (as claimed): a run that a parse failure has aborted has not written
\* the cache file.
C16_NoCacheAfterAbort ==
    (pc = "exited" /\ exitCode = 1) => (saves = 0 /\ cacheFile = cacheAtStart)

\* a record of the scripting dialect
IsScripting(e) == Get(e.value, P_namespace) = Null /\ Get(e.value, P_className) = Null

\* C17 (as claimed): every scripting record is stored under its fileName.
C17_KeyIsFileName ==
    \A i \in DOMAIN classDefinitions :
        IsScripting(classDefinitions[i]) =>
            classDefinitions[i].key = Get(classDefinitions[i].value, P_fileName).s

\* the scan-relative path f under the scan root, for the roots of Dirs
UnderRoot(f) == IF dir = <<DOT>> THEN f ELSE dir \o <<SLASH>> \o f

\* C17 (amended): every scripting record a scan inserts is stored under the
\* scan root joined with its fileName, which is the fileName itself only
\* when the root is the current directory.
C17_KeyIsRootedFileName ==
    returned # "cached" =>
        \A i \in DOMAIN classDefinitions :
            IsScripting(classDefinitions[i]) =>
                /\ classDefinitions[i].key =
                      UnderRoot(Get(classDefinitions[i].value, P_fileName).s)
                /\ (classDefinitions[i].key = Get(classDefinitions[i].value, P_fileName).s)
                      <=> (dir = <<DOT>>)

\* scanning root r has stored the record of f.js under r/f.js with the
\* fileName f.js
C17_Witness ==
    /\ dir = <<"r">>
    /\ returned # "cached"
    /\ \E i \in DOMAIN classDefinitions :
          /\ IsScripting(classDefinitions[i])
          /\ classDefinitions[i].key = <<"r", "/", "f", ".", "j", "s">>
          /\ Get(classDefinitions[i].value, P_fileName) = Str(Tree[6].p)

====
